---- MODULE Spec2Model ----
(***************************************************************************)
(* Model of the report pipeline of llms-with-streamlit:                    *)
(*   - extract_report_sections (app/modules/report_generator.py), the      *)
(*     line-oriented section router, on character-level text;             *)
(*   - generate_report (app/modules/crew_agents.py), the sampling step    *)
(*     and the three-task crew.                                            *)
(* Text is a sequence of one-character strings, "\n" being the line       *)
(* terminator, so that split, lower-casing and substring search are       *)
(* computed as Python computes them.                                       *)
(***************************************************************************)
EXTENDS Integers, Sequences, FiniteSets, Bags, TLC

VARIABLES
    \* extract_report_sections
    router_pc,        \* "call" | "loop" | "done"
    report_text,      \* the argument
    lines,            \* report_text.split('\n')
    line_idx,         \* number of loop iterations completed
    current_section,  \* the local current_section
    sections,         \* the dict sections (the value returned when done)
    \* generate_report
    gen_pc,           \* "call" | "sampled" | "agents" | "tasks" | "crew" | "kickoff"
                      \*   | "done" | "raised"
    df,               \* the argument: the dataset's rows, in order
    api_key,          \* whether OPENAI_API_KEY is set in the environment
    np_global,        \* state of numpy's process-wide generator
    df_sample,        \* the local df_sample
    table_string,     \* the local table_string
    agents,           \* the agents created so far, in creation order
    llm_calls,        \* number of completed get_llm() calls
    tasks,            \* the three Task objects
    crew,             \* the Crew object
    llm_call,         \* the generation call in flight: "idle" | "pending" | "silent"
    task_inputs,      \* what each started task was given: its Task and its context
    task_outputs,     \* outputs of the tasks the crew has run, in run order
    gen_result,       \* the value returned, or the exception raised
    runs,             \* number of calls of generate_report on this dataset
    prev_sample,      \* df_sample of the previous call
    \* the metrics functions and their caller
    m_pc,             \* "uploaded" | "ready" | "returned" | "raised"
    m_fn,             \* the function called: "none" or its name
    m_df,             \* the caller's DataFrame: column name -> [dtype, values]
    m_result,         \* the value returned, or the name of the exception raised
    \* main.py: the page script and the session
    app_pc,           \* position in the script run; "idle" between reruns
    key_set,          \* whether OPENAI_API_KEY is set in the environment
    uploaded_file,    \* index of the file in the uploader, 0 when none
    analyze_button,   \* st.button's value in this rerun: clicked or not
    button_shown,     \* whether the last run rendered the Generate button
    report_generated, \* st.session_state.report_generated: "unset" | "False" | "True"
    app_df,           \* the DataFrame df of this run
    graphs,           \* the titles of the dict graphs of this run
    app_report,       \* sample_insights and metrics of generate_streamlit_report
    app_exc,          \* the exception in flight, "none" when none
    screen,           \* the elements this run has put on the page, in order
    reruns            \* number of script runs of the session so far

routerVars == <<router_pc, report_text, lines, line_idx, current_section, sections>>

genVars ==
    <<gen_pc, df, api_key, np_global, df_sample, table_string, agents, llm_calls,
      tasks, crew, llm_call, task_inputs, task_outputs, gen_result, runs, prev_sample>>

metricsVars == <<m_pc, m_fn, m_df, m_result>>

appVars ==
    <<app_pc, key_set, uploaded_file, analyze_button, button_shown, report_generated,
      app_df, graphs, app_report, app_exc, screen, reruns>>

vars == <<routerVars, genVars, metricsVars, appVars>>

----------------------------------------------------------------------------
(* Bounds *)

\* Largest number of lines of an enumerated document.
MaxLines == 3

\* Largest number of rows of a dataset.
MaxRows == 52

\* Number of distinct texts the generator may return for one task.
MaxVariants == 2

\* Number of calls of generate_report on one dataset.
MaxRuns == 2

\* Largest number of rows of a dataset given to the metrics functions.
MaxMetricRows == 4

\* Largest number of script runs of one session.
MaxReruns == 4

----------------------------------------------------------------------------
(* Text *)

NL == "\n"

UpperToLower ==
    "A" :> "a" @@ "B" :> "b" @@ "C" :> "c" @@ "D" :> "d" @@ "E" :> "e" @@
    "F" :> "f" @@ "G" :> "g" @@ "H" :> "h" @@ "I" :> "i" @@ "J" :> "j" @@
    "K" :> "k" @@ "L" :> "l" @@ "M" :> "m" @@ "N" :> "n" @@ "O" :> "o" @@
    "P" :> "p" @@ "Q" :> "q" @@ "R" :> "r" @@ "S" :> "s" @@ "T" :> "t" @@
    "U" :> "u" @@ "V" :> "v" @@ "W" :> "w" @@ "X" :> "x" @@ "Y" :> "y" @@
    "Z" :> "z"

\* str.lower(), character by character.
Lower(s) ==
    [i \in 1..Len(s) |-> IF s[i] \in DOMAIN UpperToLower THEN UpperToLower[s[i]] ELSE s[i]]

\* Python's `sub in s` on strings.
Contains(sub, s) ==
    \E i \in 1..(Len(s) - Len(sub) + 1) : SubSeq(s, i, i + Len(sub) - 1) = sub

\* Index of the first "\n" of s, 0 when there is none.
FirstNL(s) ==
    IF \E i \in 1..Len(s) : s[i] = NL
    THEN CHOOSE i \in 1..Len(s) : s[i] = NL /\ \A j \in 1..(i - 1) : s[j] # NL
    ELSE 0

\* str.split('\n'): the pieces between terminators; always at least one piece.
RECURSIVE Split(_)
Split(s) ==
    IF FirstNL(s) = 0
    THEN <<s>>
    ELSE <<SubSeq(s, 1, FirstNL(s) - 1)>> \o Split(SubSeq(s, FirstNL(s) + 1, Len(s)))

KW_insight == <<"i", "n", "s", "i", "g", "h", "t">>
KW_quality == <<"q", "u", "a", "l", "i", "t", "y">>
KW_recommend == <<"r", "e", "c", "o", "m", "m", "e", "n", "d">>
HASH == <<"#">>

SectionNames == {"intro", "insights", "quality", "recommendations"}

----------------------------------------------------------------------------
(* Documents the router is run on *)

LineEmpty == <<>>
LineBody == <<"A">>
LineInsights == <<"#", " ", "K", "e", "y", " ", "I", "n", "s", "i", "g", "h", "t", "s">>
LineQuality == <<"#", " ", "D", "a", "t", "a", " ", "Q", "u", "a", "l", "i", "t", "y">>
LineRecommend ==
    <<"#", " ", "R", "e", "c", "o", "m", "m", "e", "n", "d", "a", "t", "i", "o", "n", "s">>
LineBoth ==
    <<"#", "#", " ", "Q", "U", "A", "L", "I", "T", "Y", " ", "i", "n", "s", "i", "g", "h", "t", "s">>
LineQualRec ==
    <<"#", " ", "r", "e", "c", "o", "m", "m", "e", "n", "d", " ", "q", "u", "a", "l", "i", "t", "y">>
LineNoHash == <<"K", "e", "y", " ", "i", "n", "s", "i", "g", "h", "t", "s">>
LineHashOnly == <<"T", "o", "p", " ", "#", "1">>
LineInlineHash == <<"s", "e", "e", " ", "q", "u", "a", "l", "i", "t", "y", " ", "#", "2">>

LineVocabulary ==
    { LineEmpty, LineBody, LineInsights, LineQuality, LineRecommend, LineBoth,
      LineQualRec, LineNoHash, LineHashOnly, LineInlineHash }

\* "# Key Insights\nA\n# Data Quality\nB\n# Recommendations\nC\n"
ExampleDoc ==
    <<"#", " ", "K", "e", "y", " ", "I", "n", "s", "i", "g", "h", "t", "s", "\n",
      "A", "\n",
      "#", " ", "D", "a", "t", "a", " ", "Q", "u", "a", "l", "i", "t", "y", "\n",
      "B", "\n",
      "#", " ", "R", "e", "c", "o", "m", "m", "e", "n", "d", "a", "t", "i", "o", "n", "s", "\n",
      "C", "\n">>

\* "\n".join(ls)
RECURSIVE JoinNL(_)
JoinNL(ls) ==
    IF Len(ls) = 0 THEN <<>>
    ELSE IF Len(ls) = 1 THEN ls[1]
    ELSE ls[1] \o <<NL>> \o JoinNL(Tail(ls))

Documents ==
    { JoinNL(ls) : ls \in UNION { [1..n -> LineVocabulary] : n \in 1..MaxLines } }
    \cup { ExampleDoc }

----------------------------------------------------------------------------
(* extract_report_sections *)

EmptySections == [k \in SectionNames |-> <<>>]

\* sections[name] += line + "\n"
AppendLine(secs, name, line) == [secs EXCEPT ![name] = @ \o line \o <<NL>>]

\* Variants of the if/elif chain, each a slip the routing claims must detect.
RouteLine_ElseToIntro(secs, cur, line) ==
    LET lower_line == Lower(line) IN
    IF Contains(KW_insight, lower_line) /\ Contains(HASH, line)
    THEN [current_section |-> "insights", sections |-> AppendLine(secs, "insights", line)]
    ELSE IF Contains(KW_quality, lower_line) /\ Contains(HASH, line)
    THEN [current_section |-> "quality", sections |-> AppendLine(secs, "quality", line)]
    ELSE IF Contains(KW_recommend, lower_line) /\ Contains(HASH, line)
    THEN [current_section |-> "recommendations",
          sections |-> AppendLine(secs, "recommendations", line)]
    ELSE [current_section |-> cur, sections |-> AppendLine(secs, "intro", line)]

RouteLine_DropHeading(secs, cur, line) ==
    LET lower_line == Lower(line) IN
    IF Contains(KW_insight, lower_line) /\ Contains(HASH, line)
    THEN [current_section |-> "insights", sections |-> secs]
    ELSE IF Contains(KW_quality, lower_line) /\ Contains(HASH, line)
    THEN [current_section |-> "quality", sections |-> secs]
    ELSE IF Contains(KW_recommend, lower_line) /\ Contains(HASH, line)
    THEN [current_section |-> "recommendations", sections |-> secs]
    ELSE [current_section |-> cur, sections |-> AppendLine(secs, cur, line)]

RouteLine_QualityFirst(secs, cur, line) ==
    LET lower_line == Lower(line) IN
    IF Contains(KW_quality, lower_line) /\ Contains(HASH, line)
    THEN [current_section |-> "quality", sections |-> AppendLine(secs, "quality", line)]
    ELSE IF Contains(KW_insight, lower_line) /\ Contains(HASH, line)
    THEN [current_section |-> "insights", sections |-> AppendLine(secs, "insights", line)]
    ELSE IF Contains(KW_recommend, lower_line) /\ Contains(HASH, line)
    THEN [current_section |-> "recommendations",
          sections |-> AppendLine(secs, "recommendations", line)]
    ELSE [current_section |-> cur, sections |-> AppendLine(secs, cur, line)]

RouteLine_AppendBeforeSwitch(secs, cur, line) ==
    LET lower_line == Lower(line) IN
    IF Contains(KW_insight, lower_line) /\ Contains(HASH, line)
    THEN [current_section |-> "insights", sections |-> AppendLine(secs, cur, line)]
    ELSE IF Contains(KW_quality, lower_line) /\ Contains(HASH, line)
    THEN [current_section |-> "quality", sections |-> AppendLine(secs, cur, line)]
    ELSE IF Contains(KW_recommend, lower_line) /\ Contains(HASH, line)
    THEN [current_section |-> "recommendations", sections |-> AppendLine(secs, cur, line)]
    ELSE [current_section |-> cur, sections |-> AppendLine(secs, cur, line)]

RouteLine_NoHashCheck(secs, cur, line) ==
    LET lower_line == Lower(line) IN
    IF Contains(KW_insight, lower_line)
    THEN [current_section |-> "insights", sections |-> AppendLine(secs, "insights", line)]
    ELSE IF Contains(KW_quality, lower_line)
    THEN [current_section |-> "quality", sections |-> AppendLine(secs, "quality", line)]
    ELSE IF Contains(KW_recommend, lower_line)
    THEN [current_section |-> "recommendations",
          sections |-> AppendLine(secs, "recommendations", line)]
    ELSE [current_section |-> cur, sections |-> AppendLine(secs, cur, line)]

RouteLine_StoreLower(secs, cur, line) ==
    LET lower_line == Lower(line) IN
    IF Contains(KW_insight, lower_line) /\ Contains(HASH, line)
    THEN [current_section |-> "insights",
          sections |-> AppendLine(secs, "insights", lower_line)]
    ELSE IF Contains(KW_quality, lower_line) /\ Contains(HASH, line)
    THEN [current_section |-> "quality", sections |-> AppendLine(secs, "quality", lower_line)]
    ELSE IF Contains(KW_recommend, lower_line) /\ Contains(HASH, line)
    THEN [current_section |-> "recommendations",
          sections |-> AppendLine(secs, "recommendations", lower_line)]
    ELSE [current_section |-> cur, sections |-> AppendLine(secs, cur, lower_line)]

\* One iteration of `for line in lines`: the if/elif chain.
RouteLine(secs, cur, line) ==
    LET lower_line == Lower(line) IN
    IF Contains(KW_insight, lower_line) /\ Contains(HASH, line)
    THEN [current_section |-> "insights", sections |-> AppendLine(secs, "insights", line)]
    ELSE IF Contains(KW_quality, lower_line) /\ Contains(HASH, line)
    THEN [current_section |-> "quality", sections |-> AppendLine(secs, "quality", line)]
    ELSE IF Contains(KW_recommend, lower_line) /\ Contains(HASH, line)
    THEN [current_section |-> "recommendations",
          sections |-> AppendLine(secs, "recommendations", line)]
    ELSE [current_section |-> cur, sections |-> AppendLine(secs, cur, line)]

\* Lines 190-199: the dict, the split and the initial bucket.
ExtractEnter ==
    /\ router_pc = "call"
    /\ sections' = EmptySections
    /\ lines' = Split(report_text)
    /\ current_section' = "intro"
    /\ line_idx' = 0
    /\ router_pc' = "loop"
    /\ UNCHANGED report_text
    /\ UNCHANGED genVars
    /\ UNCHANGED metricsVars
    /\ UNCHANGED appVars

\* Lines 201-214: one loop iteration.
ExtractLine ==
    /\ router_pc = "loop"
    /\ line_idx < Len(lines)
    /\ LET r == RouteLine(sections, current_section, lines[line_idx + 1]) IN
        /\ sections' = r.sections
        /\ current_section' = r.current_section
    /\ line_idx' = line_idx + 1
    /\ UNCHANGED <<router_pc, report_text, lines>>
    /\ UNCHANGED genVars
    /\ UNCHANGED metricsVars
    /\ UNCHANGED appVars

\* Line 216: return sections.
ExtractReturn ==
    /\ router_pc = "loop"
    /\ line_idx = Len(lines)
    /\ router_pc' = "done"
    /\ UNCHANGED <<report_text, lines, line_idx, current_section, sections>>
    /\ UNCHANGED genVars
    /\ UNCHANGED metricsVars
    /\ UNCHANGED appVars

\* The router before its call, on the document doc.
RouterAtCall(doc) ==
    /\ router_pc = "call"
    /\ report_text = doc
    /\ lines = <<>>
    /\ line_idx = 0
    /\ current_section = "intro"
    /\ sections = EmptySections

----------------------------------------------------------------------------
(* generate_report: sampling *)

\* len(df) > SampleCap selects a sample of SampleCap rows.
SampleCap == 50

\* random_state of df.sample.
RandomSeed == 42

NoData == "No data to analyze."

\* Initial states of numpy's process-wide generator.
GlobalSeeds == {1, 2}

\* One draw of the generator: its next state.
NextRand(s) == (s * 75 + 74) % 65537

\* RandomState.permutation: shuffle x[1..i] in place, from the last position
\* down, each position swapped with a drawn position at or below it.
RECURSIVE Shuffle(_, _, _)
Shuffle(x, i, s) ==
    IF i <= 1 THEN [perm |-> x, state |-> s]
    ELSE LET s2 == NextRand(s)
             j == (s2 % i) + 1
         IN Shuffle([x EXCEPT ![i] = x[j], ![j] = x[i]], i - 1, s2)

\* frame.take(positions)
Take(frame, positions) == [i \in 1..Len(positions) |-> frame[positions[i]]]

\* df.sample(n) without random_state: draws from the process-wide generator.
DfSample_Unseeded(frame, n, global) ==
    LET r == Shuffle([i \in 1..Len(frame) |-> i], Len(frame), global) IN
    [rows |-> Take(frame, SubSeq(r.perm, 1, n)), np_global |-> r.state]

\* df.sample(n, random_state=42): n rows without replacement, drawn by a
\* generator freshly seeded with 42; the process-wide generator is not used.
DfSample(frame, n, global) ==
    LET r == Shuffle([i \in 1..Len(frame) |-> i], Len(frame), RandomSeed) IN
    [rows |-> Take(frame, SubSeq(r.perm, 1, n)), np_global |-> global]

\* Lines 20-25 without the empty-dataset return.
SelectSample_NoEmptyCheck(frame, global) ==
    IF Len(frame) > SampleCap
    THEN [empty |-> FALSE, sample |-> DfSample(frame, SampleCap, global)]
    ELSE [empty |-> FALSE, sample |-> [rows |-> frame, np_global |-> global]]

\* Lines 20-25 with >= in place of >.
SelectSample_SampleAtCap(frame, global) ==
    IF Len(frame) = 0
    THEN [empty |-> TRUE, sample |-> [rows |-> <<>>, np_global |-> global]]
    ELSE IF Len(frame) >= SampleCap
    THEN [empty |-> FALSE, sample |-> DfSample(frame, SampleCap, global)]
    ELSE [empty |-> FALSE, sample |-> [rows |-> frame, np_global |-> global]]

\* Lines 20-25: the empty-dataset return, the sample, or the dataset itself.
SelectSample(frame, global) ==
    IF Len(frame) = 0
    THEN [empty |-> TRUE, sample |-> [rows |-> <<>>, np_global |-> global]]
    ELSE IF Len(frame) > SampleCap
    THEN [empty |-> FALSE, sample |-> DfSample(frame, SampleCap, global)]
    ELSE [empty |-> FALSE, sample |-> [rows |-> frame, np_global |-> global]]

\* to_csv(index=False): the header line, then one line per row, in row order.
ToCsv(frame) == <<"header">> \o [i \in 1..Len(frame) |-> <<"row", frame[i]>>]

----------------------------------------------------------------------------
(* generate_report: agents, tasks, crew *)

\* The roles, in the order of lines 31-33 and of the crew's task list.
AgentRoles == <<"insights", "quality", "recommendations">>

\* Task(description=f"<instruction of the role> {table_string}", agent=...)
MakeTask(role, table) == [agent |-> role, instruction |-> role, table |-> table]

\* The texts the generator may return for a task.
TaskTexts(role) == {[task |-> role, variant |-> v] : v \in 1..MaxVariants}

\* CrewOutput.raw of a sequential crew: the raw output of the last task.
CrewRaw(outputs) == <<outputs[Len(outputs)]>>

\* generate_report before its call.
GenAtCall(frame, key, global) ==
    /\ gen_pc = "call"
    /\ df = frame
    /\ api_key = key
    /\ np_global = global
    /\ df_sample = <<>>
    /\ table_string = <<>>
    /\ agents = <<>>
    /\ llm_calls = 0
    /\ tasks = <<>>
    /\ crew = "none"
    /\ llm_call = "idle"
    /\ task_inputs = <<>>
    /\ task_outputs = <<>>
    /\ gen_result = "none"
    /\ runs = 1
    /\ prev_sample = <<>>

\* Lines 20-25.
GenSample ==
    /\ gen_pc = "call"
    /\ LET r == SelectSample(df, np_global) IN
        IF r.empty
        THEN /\ gen_result' = NoData
             /\ gen_pc' = "done"
             /\ UNCHANGED <<df_sample, np_global>>
        ELSE /\ df_sample' = r.sample.rows
             /\ np_global' = r.sample.np_global
             /\ gen_pc' = "sampled"
             /\ UNCHANGED gen_result
    /\ UNCHANGED <<df, api_key, table_string, agents, llm_calls, tasks, crew,
                   llm_call, task_inputs, task_outputs, runs, prev_sample>>
    /\ UNCHANGED routerVars
    /\ UNCHANGED metricsVars
    /\ UNCHANGED appVars

\* Line 28.
GenToCsv ==
    /\ gen_pc = "sampled"
    /\ table_string' = ToCsv(df_sample)
    /\ gen_pc' = "agents"
    /\ UNCHANGED <<df, api_key, np_global, df_sample, agents, llm_calls, tasks, crew,
                   llm_call, task_inputs, task_outputs, gen_result, runs, prev_sample>>
    /\ UNCHANGED routerVars
    /\ UNCHANGED metricsVars
    /\ UNCHANGED appVars

\* Lines 31-33, one agent per step: create_*_agent() calls get_llm(), which
\* calls get_openai_api_key(), which raises ValueError when the key is unset.
GenCreateAgent ==
    /\ gen_pc = "agents"
    /\ Len(agents) < Len(AgentRoles)
    /\ IF api_key
       THEN /\ agents' = Append(agents, AgentRoles[Len(agents) + 1])
            /\ llm_calls' = llm_calls + 1
            /\ UNCHANGED <<gen_pc, gen_result>>
       ELSE /\ gen_pc' = "raised"
            /\ gen_result' = "ValueError"
            /\ UNCHANGED <<agents, llm_calls>>
    /\ UNCHANGED <<df, api_key, np_global, df_sample, table_string, tasks, crew,
                   llm_call, task_inputs, task_outputs, runs, prev_sample>>
    /\ UNCHANGED routerVars
    /\ UNCHANGED metricsVars
    /\ UNCHANGED appVars

\* Lines 36-52.
GenCreateTasks ==
    /\ gen_pc = "agents"
    /\ Len(agents) = Len(AgentRoles)
    /\ tasks' = [i \in 1..Len(agents) |-> MakeTask(agents[i], table_string)]
    /\ gen_pc' = "crew"
    /\ UNCHANGED <<df, api_key, np_global, df_sample, table_string, agents, llm_calls,
                   crew, llm_call, task_inputs, task_outputs, gen_result, runs,
                   prev_sample>>
    /\ UNCHANGED routerVars
    /\ UNCHANGED metricsVars
    /\ UNCHANGED appVars

\* Lines 55-59: Crew(agents=..., tasks=..., llm=get_llm()).
GenCreateCrew ==
    /\ gen_pc = "crew"
    /\ crew' = [agents |-> agents, tasks |-> tasks]
    /\ llm_calls' = llm_calls + 1
    /\ gen_pc' = "kickoff"
    /\ UNCHANGED <<df, api_key, np_global, df_sample, table_string, agents, tasks,
                   llm_call, task_inputs, task_outputs, gen_result, runs, prev_sample>>
    /\ UNCHANGED routerVars
    /\ UNCHANGED metricsVars
    /\ UNCHANGED appVars

\* The context a sequential crew hands to its next task when the Task names
\* none: the raw outputs of the tasks run before it (all of them, or the
\* latest one alone, depending on the crewai release).
TaskContexts(outputs) ==
    IF Len(outputs) = 0 THEN {<<>>}
    ELSE {outputs, <<outputs[Len(outputs)]>>}

\* Line 61, crew.kickoff(): the crew's process is the default, sequential one;
\* it starts the next task of its list with the context of the earlier
\* outputs. The generation call is made with no timeout: the generator will
\* answer ("pending") or never does ("silent").
GenCallTask ==
    /\ gen_pc = "kickoff"
    /\ llm_call = "idle"
    /\ Len(task_outputs) < Len(crew.tasks)
    /\ \E context \in TaskContexts(task_outputs) :
        task_inputs' = Append(task_inputs,
                              [task |-> crew.tasks[Len(task_outputs) + 1],
                               context |-> context])
    /\ llm_call' \in {"pending", "silent"}
    /\ UNCHANGED <<gen_pc, df, api_key, np_global, df_sample, table_string, agents,
                   llm_calls, tasks, crew, task_outputs, gen_result, runs, prev_sample>>
    /\ UNCHANGED routerVars
    /\ UNCHANGED metricsVars
    /\ UNCHANGED appVars

\* Line 61 with a crew that leaves out a task whose generation failed.
GenRunTask_SkipFailed ==
    /\ gen_pc = "kickoff"
    /\ llm_call = "pending"
    /\ llm_call' = "idle"
    /\ \/ /\ \E text \in TaskTexts(crew.tasks[Len(task_outputs) + 1].agent) :
                task_outputs' = Append(task_outputs, text)
          /\ UNCHANGED <<gen_pc, gen_result>>
       \/ /\ gen_pc' = "done"
          /\ gen_result' = task_outputs
          /\ UNCHANGED task_outputs
    /\ UNCHANGED <<df, api_key, np_global, df_sample, table_string, agents, llm_calls,
                   tasks, crew, task_inputs, runs, prev_sample>>
    /\ UNCHANGED routerVars
    /\ UNCHANGED metricsVars
    /\ UNCHANGED appVars

\* Line 61, crew.kickoff(): the generation call of the running task returns a
\* text, or fails and the exception leaves kickoff and generate_report.
GenRunTask ==
    /\ gen_pc = "kickoff"
    /\ llm_call = "pending"
    /\ llm_call' = "idle"
    /\ \/ /\ \E text \in TaskTexts(crew.tasks[Len(task_outputs) + 1].agent) :
                task_outputs' = Append(task_outputs, text)
          /\ UNCHANGED <<gen_pc, gen_result>>
       \/ /\ gen_pc' = "raised"
          /\ gen_result' = "GenerationError"
          /\ UNCHANGED task_outputs
    /\ UNCHANGED <<df, api_key, np_global, df_sample, table_string, agents, llm_calls,
                   tasks, crew, task_inputs, runs, prev_sample>>
    /\ UNCHANGED routerVars
    /\ UNCHANGED metricsVars
    /\ UNCHANGED appVars

\* Lines 61-63: final_report = crew.kickoff(); return final_report.raw
GenReturn ==
    /\ gen_pc = "kickoff"
    /\ llm_call = "idle"
    /\ Len(task_outputs) = Len(crew.tasks)
    /\ gen_result' = CrewRaw(task_outputs)
    /\ gen_pc' = "done"
    /\ UNCHANGED <<df, api_key, np_global, df_sample, table_string, agents, llm_calls,
                   tasks, crew, llm_call, task_inputs, task_outputs, runs, prev_sample>>
    /\ UNCHANGED routerVars
    /\ UNCHANGED metricsVars
    /\ UNCHANGED appVars

\* Line 8: the caller calls generate_report again on the same dataset.
GenAgain ==
    /\ gen_pc = "done"
    /\ runs < MaxRuns
    /\ runs' = runs + 1
    /\ prev_sample' = df_sample
    /\ gen_pc' = "call"
    /\ df_sample' = <<>>
    /\ table_string' = <<>>
    /\ agents' = <<>>
    /\ llm_calls' = 0
    /\ tasks' = <<>>
    /\ crew' = "none"
    /\ llm_call' = "idle"
    /\ task_inputs' = <<>>
    /\ task_outputs' = <<>>
    /\ gen_result' = "none"
    /\ UNCHANGED <<df, api_key, np_global>>
    /\ UNCHANGED routerVars
    /\ UNCHANGED metricsVars
    /\ UNCHANGED appVars

----------------------------------------------------------------------------
(* DataFrames of the metrics functions *)

\* A numeric value is a fraction [num, den] with den > 0; NaN has den = 0.
Frac(n, d) == [num |-> n, den |-> d]
NaN == Frac(0, 0)
IsNaN(x) == x.den = 0

\* A column is [dtype, values]. One-pattern columns of n rows:
PlanColumn(n) ==
    [dtype |-> "object", values |-> [i \in 1..n |-> IF i % 3 = 2 THEN "Pro" ELSE "Basic"]]
IndustryColumn(n) ==
    [dtype |-> "object", values |-> [i \in 1..n |-> IF i % 2 = 1 THEN "Tech" ELSE "Retail"]]
CountryColumn(n) ==
    [dtype |-> "object", values |-> [i \in 1..n |-> IF i <= 2 THEN "US" ELSE "BR"]]
SignupColumn(n) ==
    [dtype |-> "object", values |-> [i \in 1..n |-> IF i = 1 THEN "Ads" ELSE "Referral"]]

\* Monetary columns: 10.00, 20.00, 30.00, ... or 30.00, 50.00, 20.00, 40.00,
\* 10.00, ... in dollars, or text that is no number.
SpendColumns(n) ==
    { [dtype |-> "float64", values |-> [i \in 1..n |-> Frac(10 * i, 1)]],
      [dtype |-> "float64", values |-> [i \in 1..n |-> Frac(10 * (((2 * i) % 5) + 1), 1)]],
      [dtype |-> "object", values |-> [i \in 1..n |-> "ten"]] }

\* Tenure columns: 6, 12, 18, ... months, or text that is no number.
TenureColumns(n) ==
    { [dtype |-> "int64", values |-> [i \in 1..n |-> Frac(6 * i, 1)]],
      [dtype |-> "object", values |-> [i \in 1..n |-> "ten"]] }

\* Churn columns with the first k rows churned: native booleans, the strings
\* "True"/"False", the integers 1/0, and the nullable boolean dtype whose last
\* row is missing.
ChurnColumns(n) ==
    { [dtype |-> "bool", values |-> [i \in 1..n |-> i <= k]] : k \in 0..n }
    \cup { [dtype |-> "object", values |-> [i \in 1..n |-> IF i <= k THEN "True" ELSE "False"]]
            : k \in 0..n }
    \cup { [dtype |-> "int64",
             values |-> [i \in 1..n |-> IF i <= k THEN Frac(1, 1) ELSE Frac(0, 1)]]
            : k \in 0..n }
    \cup { [dtype |-> "boolean",
             values |-> [i \in 1..n |-> [na |-> i = n, v |-> i <= k /\ i < n]]]
            : k \in 0..(n - 1) }

\* A column that the dataset does not have.
Absent == [dtype |-> "absent", values |-> <<>>]

\* The DataFrame with the given columns under the given names, the absent
\* ones left out.
FrameOf(named) == [name \in {k \in DOMAIN named : named[k].dtype # "absent"} |-> named[name]]

\* The uploaded datasets of n rows, under the column names of the CSV header:
\* any subset of the columns, each with one of its contents.
RawFrames(n) ==
    { FrameOf("Plan" :> p @@ "Monthly Spend ($)" :> s @@ "Churned" :> c
              @@ "Tenure (Months)" :> t @@ "Industry" :> i @@ "Country" :> co
              @@ "Signup Source" :> sg) :
        p \in {Absent, PlanColumn(n)},
        s \in {Absent} \cup SpendColumns(n),
        c \in {Absent} \cup ChurnColumns(n),
        t \in {Absent} \cup TenureColumns(n),
        i \in {Absent, IndustryColumn(n)},
        co \in {Absent, CountryColumn(n)},
        sg \in {Absent, SignupColumn(n)} }

\* df.rename(columns={...}, inplace=True)
RenameColumns(fr, mapping) ==
    LET NewName(k) == IF k \in DOMAIN mapping THEN mapping[k] ELSE k
        OldName(k) == CHOOSE o \in DOMAIN fr : NewName(o) = k
    IN [k \in {NewName(o) : o \in DOMAIN fr} |-> fr[OldName(k)]]

ColumnRenames ==
    "Monthly Spend ($)" :> "MonthlySpend" @@ "Tenure (Months)" :> "Tenure"
        @@ "Churned" :> "Churn"

----------------------------------------------------------------------------
(* pandas and Python operations the metrics functions use *)

\* The outcome of an expression: a value, or the exception it raises.
Ok(v) == [exc |-> "none", value |-> v]
Raise(e) == [exc |-> e, value |-> NaN]

RECURSIVE SumFrac(_)
SumFrac(vals) ==
    IF Len(vals) = 0 THEN Frac(0, 1)
    ELSE LET r == SumFrac(Tail(vals)) IN
         Frac(vals[1].num * r.den + r.num * vals[1].den, vals[1].den * r.den)

LessEq(a, b) == a.num * b.den <= b.num * a.den

\* The values in ascending order (insertion into the sorted tail).
RECURSIVE SortFrac(_)
SortFrac(vals) ==
    IF Len(vals) = 0 THEN <<>>
    ELSE LET rest == SortFrac(Tail(vals))
             below == SelectSeq(rest, LAMBDA v : ~LessEq(vals[1], v))
             above == SelectSeq(rest, LAMBDA v : LessEq(vals[1], v))
         IN below \o <<vals[1]>> \o above

\* The cells of a numeric or boolean column, as numbers.
Numeric(col) ==
    IF col.dtype = "bool"
    THEN [i \in DOMAIN col.values |-> IF col.values[i] THEN Frac(1, 1) ELSE Frac(0, 1)]
    ELSE col.values

\* Series.mean(): NaN on no rows, TypeError on text.
SeriesMean(col) ==
    IF Len(col.values) = 0 THEN Ok(NaN)
    ELSE IF col.dtype = "object" THEN Raise("TypeError")
    ELSE LET t == SumFrac(Numeric(col)) IN Ok(Frac(t.num, t.den * Len(col.values)))

\* Series.median() with the middle value taken before sorting.
SeriesMedian_Unsorted(col) ==
    IF Len(col.values) = 0 THEN Ok(NaN)
    ELSE IF col.dtype = "object" THEN Raise("TypeError")
    ELSE LET v == Numeric(col)
             n == Len(v)
             lo == v[(n + 1) \div 2]
             hi == v[(n \div 2) + 1]
         IN Ok(Frac(lo.num * hi.den + hi.num * lo.den, 2 * lo.den * hi.den))

\* Series.median(): the middle value, or the mean of the two middle values.
SeriesMedian(col) ==
    IF Len(col.values) = 0 THEN Ok(NaN)
    ELSE IF col.dtype = "object" THEN Raise("TypeError")
    ELSE LET v == SortFrac(Numeric(col))
             n == Len(v)
             lo == v[(n + 1) \div 2]
             hi == v[(n \div 2) + 1]
         IN Ok(Frac(lo.num * hi.den + hi.num * lo.den, 2 * lo.den * hi.den))

\* Series.max() of a numeric column.
SeriesMax(col) ==
    IF Len(col.values) = 0 THEN Ok(NaN)
    ELSE IF col.dtype = "object" THEN Raise("TypeError")
    ELSE LET v == SortFrac(Numeric(col)) IN Ok(v[Len(v)])

Times100(x) == Frac(x.num * 100, x.den)

\* The integer nearest to n / d, a tie going to the even one.
RoundHalfEven(n, d) ==
    LET fl == n \div d
        twice == 2 * (n % d)
    IN IF twice < d THEN fl
       ELSE IF twice > d THEN fl + 1
       ELSE IF fl % 2 = 0 THEN fl ELSE fl + 1

Pow10(d) == IF d = 0 THEN 1 ELSE IF d = 1 THEN 10 ELSE 100

\* The last d decimal digits of r, zero-padded.
RECURSIVE Digits(_, _)
Digits(r, d) == IF d = 0 THEN "" ELSE Digits(r \div 10, d - 1) \o ToString(r % 10)

\* f"{x:.<d>f}" for x >= 0 and d in 1..2.
FormatFixed(x, d) ==
    IF IsNaN(x) THEN "nan"
    ELSE LET q == RoundHalfEven(x.num * Pow10(d), x.den) IN
         ToString(q \div Pow10(d)) \o "." \o Digits(q % Pow10(d), d)

\* round(x, d)
RoundTo(x, d) == IF IsNaN(x) THEN NaN ELSE Frac(RoundHalfEven(x.num * Pow10(d), x.den), Pow10(d))

\* The cells that are not missing.
DropNA(col) ==
    IF col.dtype = "boolean"
    THEN [dtype |-> "bool",
          values |-> LET kept == SelectSeq(col.values, LAMBDA c : ~c.na)
                     IN [i \in DOMAIN kept |-> kept[i].v]]
    ELSE col

\* The distinct values of a sequence, in order of first appearance.
RECURSIVE Distinct(_)
Distinct(vals) ==
    IF Len(vals) = 0 THEN <<>>
    ELSE LET front == Distinct(SubSeq(vals, 1, Len(vals) - 1))
             last == vals[Len(vals)]
         IN IF \E i \in DOMAIN front : front[i] = last THEN front ELSE Append(front, last)

CountOf(vals, v) == Cardinality({i \in DOMAIN vals : vals[i] = v})

\* Labels ordered by descending count, equal counts in the order given.
RECURSIVE ByCount(_, _)
ByCount(labels, vals) ==
    IF Len(labels) = 0 THEN <<>>
    ELSE LET top == CHOOSE i \in DOMAIN labels :
                        /\ \A j \in DOMAIN labels :
                                CountOf(vals, labels[j]) <= CountOf(vals, labels[i])
                        /\ \A j \in 1..(i - 1) :
                                CountOf(vals, labels[j]) < CountOf(vals, labels[i])
             rest == [k \in 1..(Len(labels) - 1) |->
                            IF k < top THEN labels[k] ELSE labels[k + 1]]
         IN <<[label |-> labels[top], count |-> CountOf(vals, labels[top])]>>
                \o ByCount(rest, vals)

\* Series.value_counts(): the labels of the non-missing cells with their
\* counts, most frequent first.
ValueCounts(col) == ByCount(Distinct(DropNA(col).values), DropNA(col).values)

\* Series.head(k) / Index.tolist() of a value_counts() result.
HeadLabels(vc, k) == [i \in 1..(IF Len(vc) < k THEN Len(vc) ELSE k) |-> vc[i].label]

\* value_counts(normalize=True) * 100 as a dict label -> f"{pct:.1f}%".
PercentDict(col) ==
    LET vc == ValueCounts(col)
        total == Len(DropNA(col).values)
    IN [l \in {vc[i].label : i \in DOMAIN vc} |->
            FormatFixed(Frac(100 * CountOf(DropNA(col).values, l), total), 1) \o "%"]

\* value_counts(normalize=True).get(True) with no default: KeyError when no
\* label is True.
TrueShare_NoDefault(col) ==
    LET kept == DropNA(col).values IN
    IF DropNA(col).dtype = "bool" /\ \E i \in DOMAIN kept : kept[i]
    THEN Ok(Frac(CountOf(kept, TRUE), Len(kept)))
    ELSE Raise("KeyError")

\* value_counts(normalize=True).get(True, 0): the share of the label True
\* among the non-missing cells, 0 when no label is True.
TrueShare(col) ==
    LET kept == DropNA(col).values IN
    IF DropNA(col).dtype = "bool" /\ \E i \in DOMAIN kept : kept[i]
    THEN Ok(Frac(CountOf(kept, TRUE), Len(kept)))
    ELSE Ok(Frac(0, 1))

\* Series.astype(bool): the truth value of each cell; ValueError when the
\* nullable boolean dtype holds a missing cell.
AsTypeBool(col) ==
    CASE col.dtype = "bool" -> Ok(col)
      [] col.dtype = "object" ->
            Ok([dtype |-> "bool", values |-> [i \in DOMAIN col.values |-> col.values[i] # ""]])
      [] col.dtype \in {"int64", "float64"} ->
            Ok([dtype |-> "bool",
                values |-> [i \in DOMAIN col.values |-> col.values[i].num # 0]])
      [] col.dtype = "boolean" ->
            IF \E i \in DOMAIN col.values : col.values[i].na
            THEN Raise("ValueError")
            ELSE Ok(DropNA(col))

----------------------------------------------------------------------------
(* findings_extractor.py and the metrics functions of report_generator.py *)

EmptyDict == [k \in {} |-> ""]
Put(d, k, v) == [x \in DOMAIN d \cup {k} |-> IF x = k THEN v ELSE d[x]]

\* A function body in progress: the caller's DataFrame, the dict built so
\* far, and the exception that ended it ("none" while it runs).
Begin(fr, d) == [df |-> fr, out |-> d, exc |-> "none"]
Has(st, column) == column \in DOMAIN st.df
Set(st, k, v) == [st EXCEPT !.out = Put(st.out, k, v)]
Add(st, k, text) == [st EXCEPT !.out = Put(st.out, k, st.out[k] \o text)]
Fail(st, e) == [st EXCEPT !.exc = e]
Running(st) == st.exc = "none"

\* The first exception among the outcomes, "none" when there is none.
FirstExc(rs) ==
    IF \A i \in DOMAIN rs : rs[i].exc = "none" THEN "none"
    ELSE rs[CHOOSE i \in DOMAIN rs :
                /\ rs[i].exc # "none"
                /\ \A j \in 1..(i - 1) : rs[j].exc = "none"].exc

\* The churn block shared by extract_key_metrics and generate_sample_insights:
\* the DataFrame after it and the rate, or the exception it raises.
ChurnRate(fr) ==
    LET col == fr["Churn"] IN
    IF col.dtype = "bool"
    THEN [df |-> fr, rate |-> Ok(Times100(SeriesMean(col).value))]
    ELSE LET conv == AsTypeBool(col) IN
         IF conv.exc = "none"
         THEN [df |-> [k \in DOMAIN fr \cup {"Churn_bool"} |->
                            IF k = "Churn_bool" THEN conv.value ELSE fr[k]],
               rate |-> Ok(Times100(SeriesMean(conv.value).value))]
         ELSE LET share == TrueShare(col) IN
              [df |-> fr,
               rate |-> IF share.exc = "none" THEN Ok(Times100(share.value)) ELSE share]

KM_Plan(st) ==
    IF ~Running(st) \/ ~Has(st, "Plan") THEN st
    ELSE Set(st, "plan_distribution", PercentDict(st.df["Plan"]))

KM_Spend(st) ==
    IF ~Running(st) \/ ~Has(st, "MonthlySpend") THEN st
    ELSE LET mean == SeriesMean(st.df["MonthlySpend"])
             median == SeriesMedian(st.df["MonthlySpend"])
             max == SeriesMax(st.df["MonthlySpend"])
         IN IF FirstExc(<<mean, median, max>>) # "none"
            THEN Fail(st, FirstExc(<<mean, median, max>>))
            ELSE Set(Set(Set(st, "average_spend", "$" \o FormatFixed(mean.value, 2)),
                         "median_spend", "$" \o FormatFixed(median.value, 2)),
                     "max_spend", "$" \o FormatFixed(max.value, 2))

KM_Churn(st) ==
    IF ~Running(st) \/ ~Has(st, "Churn") THEN st
    ELSE LET c == ChurnRate(st.df) IN
         IF c.rate.exc # "none" THEN Fail([st EXCEPT !.df = c.df], c.rate.exc)
         ELSE Set([st EXCEPT !.df = c.df], "churn_rate",
                  FormatFixed(c.rate.value, 1) \o "%")

KM_Tenure(st) ==
    IF ~Running(st) \/ ~Has(st, "Tenure") THEN st
    ELSE LET mean == SeriesMean(st.df["Tenure"])
             median == SeriesMedian(st.df["Tenure"])
         IN IF FirstExc(<<mean, median>>) # "none"
            THEN Fail(st, FirstExc(<<mean, median>>))
            ELSE Set(Set(st, "average_tenure", FormatFixed(mean.value, 1)),
                     "median_tenure", FormatFixed(median.value, 1))

KM_Industry(st) ==
    IF ~Running(st) \/ ~Has(st, "Industry") THEN st
    ELSE Set(st, "top_industries", HeadLabels(ValueCounts(st.df["Industry"]), 5))

KM_Country(st) ==
    IF ~Running(st) \/ ~Has(st, "Country") THEN st
    ELSE Set(st, "top_countries", HeadLabels(ValueCounts(st.df["Country"]), 5))

\* extract_key_metrics(df)
ExtractKeyMetrics(fr) ==
    KM_Country(KM_Industry(KM_Tenure(KM_Churn(KM_Spend(KM_Plan(Begin(fr, EmptyDict)))))))

\* df[column] of extract_findings when the body has ended or the column is
\* absent: KeyError for an absent column.
EF_Missing(st, column) ==
    IF ~Running(st) THEN st ELSE Fail(st, "KeyError")

EF_Plan(st) ==
    IF ~Running(st) \/ ~Has(st, "Plan") THEN EF_Missing(st, "Plan")
    ELSE Set(st, "plan_distribution", PercentDict(st.df["Plan"]))

EF_Spend(st) ==
    IF ~Running(st) \/ ~Has(st, "Monthly Spend ($)") THEN EF_Missing(st, "Monthly Spend ($)")
    ELSE LET mean == SeriesMean(st.df["Monthly Spend ($)"]) IN
         IF mean.exc # "none" THEN Fail(st, mean.exc)
         ELSE Set(st, "average_spend", RoundTo(mean.value, 2))

EF_Churn(st) ==
    IF ~Running(st) \/ ~Has(st, "Churned") THEN EF_Missing(st, "Churned")
    ELSE LET share == TrueShare(st.df["Churned"]) IN
         IF share.exc # "none" THEN Fail(st, share.exc)
         ELSE Set(st, "churn_rate", FormatFixed(Times100(share.value), 1) \o "%")

EF_Tenure(st) ==
    IF ~Running(st) \/ ~Has(st, "Tenure (Months)") THEN EF_Missing(st, "Tenure (Months)")
    ELSE LET mean == SeriesMean(st.df["Tenure (Months)"]) IN
         IF mean.exc # "none" THEN Fail(st, mean.exc)
         ELSE Set(st, "average_tenure", RoundTo(mean.value, 1))

EF_Countries(st) ==
    IF ~Running(st) \/ ~Has(st, "Country") THEN EF_Missing(st, "Country")
    ELSE Set(st, "top_countries", HeadLabels(ValueCounts(st.df["Country"]), 5))

EF_Industries(st) ==
    IF ~Running(st) \/ ~Has(st, "Industry") THEN EF_Missing(st, "Industry")
    ELSE Set(st, "top_industries", HeadLabels(ValueCounts(st.df["Industry"]), 5))

EF_Signup(st) ==
    IF ~Running(st) \/ ~Has(st, "Signup Source") THEN EF_Missing(st, "Signup Source")
    ELSE Set(st, "signup_sources", HeadLabels(ValueCounts(st.df["Signup Source"]), 3))

\* extract_findings(df)
ExtractFindings(fr) ==
    EF_Signup(EF_Industries(EF_Countries(EF_Tenure(EF_Churn(EF_Spend(EF_Plan(
        Begin(fr, EmptyDict))))))))

\* ", ".join(labels)
RECURSIVE JoinComma(_)
JoinComma(labels) ==
    IF Len(labels) = 0 THEN ""
    ELSE IF Len(labels) = 1 THEN labels[1]
    ELSE labels[1] \o ", " \o JoinComma(Tail(labels))

SampleInsightsStart ==
    [intro |-> "This report analyzes customer data to identify key patterns and trends.",
     insights |-> "",
     quality |-> "The dataset was analyzed for quality issues. No major issues were found.",
     recommendations |-> ""]

GenericInsights ==
    "\n"
    \o "        The customer data reveals several actionable patterns that can inform business strategy.\n"
    \o "        There's a correlation between subscription tiers and customer retention that should be leveraged.\n"
    \o "        Customer acquisition channels significantly impact lifetime value and should be optimized accordingly.\n"
    \o "        "

GenericRecommendations ==
    "\n"
    \o "        - Implement a customer feedback loop to continually improve product features\n"
    \o "        - Develop a comprehensive customer onboarding program to increase initial engagement\n"
    \o "        - Create targeted marketing campaigns based on customer segmentation\n"
    \o "        - Optimize pricing strategy to maximize both conversion and revenue\n"
    \o "        - Establish a customer success program to proactively address potential churn factors\n"
    \o "        "

SI_Plan(st) ==
    IF ~Running(st) \/ ~Has(st, "Plan") THEN st
    ELSE LET plan_counts == ValueCounts(st.df["Plan"]) IN
         IF Len(plan_counts) = 0 THEN Fail(st, "IndexError")
         ELSE LET top_plan == plan_counts[1].label
                  plan_percentage == Frac(plan_counts[1].count * 100,
                                          Len(st.df["Plan"].values))
              IN Add(Add(Add(st, "insights",
                        "The " \o top_plan
                        \o " plan is the most popular subscription option, accounting for "
                        \o FormatFixed(plan_percentage, 1) \o "% of customers. "),
                     "insights", "This suggests strong product-market fit for this tier. "),
                     "recommendations",
                     "- Consider optimizing the " \o top_plan
                        \o " plan features based on customer usage patterns.\n")

SI_Spend(st) ==
    IF ~Running(st) \/ ~Has(st, "MonthlySpend") THEN st
    ELSE LET avg_spend == SeriesMean(st.df["MonthlySpend"]) IN
         IF avg_spend.exc # "none" THEN Fail(st, avg_spend.exc)
         ELSE Add(Add(st, "insights",
                      "The average monthly spend is $" \o FormatFixed(avg_spend.value, 2)
                      \o ", which indicates a solid revenue stream. "),
                  "recommendations",
                  "- Implement tiered pricing strategies to increase average revenue per user.\n")

\* The churn block sits in try/except/pass: an exception leaves the texts as
\* they were.
SI_Churn(st) ==
    IF ~Running(st) \/ ~Has(st, "Churn") THEN st
    ELSE LET c == ChurnRate(st.df) IN
         IF c.rate.exc # "none" THEN [st EXCEPT !.df = c.df]
         ELSE Add(Add([st EXCEPT !.df = c.df], "insights",
                      "The current churn rate is " \o FormatFixed(c.rate.value, 1)
                      \o "%, which impacts customer lifetime value. "),
                  "recommendations",
                  "- Develop targeted retention programs for at-risk customer segments.\n")

SI_Tenure(st) ==
    IF ~Running(st) \/ ~Has(st, "Tenure") THEN st
    ELSE LET avg_tenure == SeriesMean(st.df["Tenure"]) IN
         IF avg_tenure.exc # "none" THEN Fail(st, avg_tenure.exc)
         ELSE Add(Add(st, "insights",
                      "Customers stay subscribed for an average of "
                      \o FormatFixed(avg_tenure.value, 1) \o " months. "),
                  "recommendations",
                  "- Create loyalty rewards for customers who reach tenure milestones.\n")

SI_Industry(st) ==
    IF ~Running(st) \/ ~Has(st, "Industry") THEN st
    ELSE Add(Add(st, "insights",
                 "The top industries in our customer base are "
                 \o JoinComma(HeadLabels(ValueCounts(st.df["Industry"]), 3)) \o ". "),
             "recommendations",
             "- Develop industry-specific features for the top customer segments.\n")

\* The generic texts with one length test for both.
SI_Generic_Coupled(st) ==
    IF ~Running(st) THEN st
    ELSE IF Len(st.out["insights"]) < 50
         THEN Add(Add(st, "insights", GenericInsights),
                  "recommendations", GenericRecommendations)
         ELSE st

SI_Generic(st) ==
    IF ~Running(st) THEN st
    ELSE LET withInsights ==
                IF Len(st.out["insights"]) < 50
                THEN Add(st, "insights", GenericInsights) ELSE st
         IN IF Len(withInsights.out["recommendations"]) < 50
            THEN Add(withInsights, "recommendations", GenericRecommendations)
            ELSE withInsights

\* generate_sample_insights(df) up to the generic texts: the texts derived
\* from the columns.
SI_Derived(fr) ==
    SI_Industry(SI_Tenure(SI_Churn(SI_Spend(SI_Plan(Begin(fr, SampleInsightsStart))))))

\* generate_sample_insights(df)
GenerateSampleInsights(fr) == SI_Generic(SI_Derived(fr))

\* The metrics functions before any call, on the uploaded DataFrame.
MetricsAtUpload(fr) ==
    /\ m_pc = "uploaded"
    /\ m_fn = "none"
    /\ m_df = fr
    /\ m_result = Ok(EmptyDict)

\* findings = extract_findings(df), on the DataFrame as read from the CSV.
MetricsFindings ==
    /\ m_pc = "uploaded"
    /\ LET st == ExtractFindings(m_df) IN
        /\ m_pc' = IF Running(st) THEN "findings" ELSE "raised"
        /\ m_df' = st.df
        /\ m_result' = IF Running(st) THEN Ok(st.out) ELSE [exc |-> st.exc, value |-> EmptyDict]
    /\ m_fn' = "extract_findings"
    /\ UNCHANGED routerVars
    /\ UNCHANGED genVars
    /\ UNCHANGED appVars

\* main.py renames the columns right after pd.read_csv.
MetricsRename ==
    /\ m_pc = "uploaded"
    /\ m_pc' = "ready"
    /\ m_df' = RenameColumns(m_df, ColumnRenames)
    /\ UNCHANGED <<m_fn, m_result>>
    /\ UNCHANGED routerVars
    /\ UNCHANGED genVars
    /\ UNCHANGED appVars

\* sample_insights = generate_sample_insights(df)
MetricsInsights ==
    /\ m_pc = "ready"
    /\ LET st == GenerateSampleInsights(m_df) IN
        /\ m_pc' = IF Running(st) THEN "insights" ELSE "raised"
        /\ m_df' = st.df
        /\ m_result' = IF Running(st) THEN Ok(st.out) ELSE [exc |-> st.exc, value |-> EmptyDict]
    /\ m_fn' = "generate_sample_insights"
    /\ UNCHANGED routerVars
    /\ UNCHANGED genVars
    /\ UNCHANGED appVars

\* metrics = extract_key_metrics(df), on its own or after the fallback texts
\* as generate_streamlit_report calls it.
MetricsKeyMetrics ==
    /\ m_pc \in {"ready", "insights"}
    /\ LET st == ExtractKeyMetrics(m_df) IN
        /\ m_pc' = IF Running(st) THEN "metrics" ELSE "raised"
        /\ m_df' = st.df
        /\ m_result' = IF Running(st) THEN Ok(st.out) ELSE [exc |-> st.exc, value |-> EmptyDict]
    /\ m_fn' = "extract_key_metrics"
    /\ UNCHANGED routerVars
    /\ UNCHANGED genVars
    /\ UNCHANGED appVars

----------------------------------------------------------------------------
(* main.py: the page script, rerun on every interaction, and the report it shows *)

\* A file in the uploader: whether pd.read_csv reads it, its number of rows,
\* and its recognized columns under the names of the CSV header.
CsvFile(ok, n, named) == [readable |-> ok, rows |-> n, frame |-> FrameOf(named)]

\* The files the user may upload: an empty file (pd.read_csv raises
\* EmptyDataError), a header with no recognized column, a header with a Plan
\* column and no rows, a complete dataset, a dataset whose monetary column is
\* text, and a dataset with an industry column only.
UploadedFiles ==
    << CsvFile(FALSE, 0, EmptyDict),
       CsvFile(TRUE, 0, EmptyDict),
       CsvFile(TRUE, 0, "Plan" :> PlanColumn(0)),
       CsvFile(TRUE, 3,
               "Plan" :> PlanColumn(3)
               @@ "Monthly Spend ($)" :>
                    [dtype |-> "float64", values |-> [i \in 1..3 |-> Frac(10 * i, 1)]]
               @@ "Churned" :> [dtype |-> "bool", values |-> <<TRUE, FALSE, FALSE>>]
               @@ "Tenure (Months)" :>
                    [dtype |-> "int64", values |-> [i \in 1..3 |-> Frac(6 * i, 1)]]
               @@ "Industry" :> IndustryColumn(3)
               @@ "Country" :> CountryColumn(3)
               @@ "Signup Source" :> SignupColumn(3)),
       CsvFile(TRUE, 2,
               "Monthly Spend ($)" :>
                    [dtype |-> "object", values |-> [i \in 1..2 |-> "ten"]]),
       CsvFile(TRUE, 1, "Industry" :> IndustryColumn(1)) >>

NoFile == 0

\* The titles of the figures generate_graphs makes for a DataFrame.
GraphTitles(fr) ==
    {t \in {"Plan Distribution", "Churn Rate", "Spend vs Tenure", "Top 10 Industries",
            "Monthly Spend Distribution", "Tenure Distribution"} :
        CASE t = "Plan Distribution" -> "Plan" \in DOMAIN fr
          [] t = "Churn Rate" -> "Churn" \in DOMAIN fr
          [] t = "Spend vs Tenure" -> {"MonthlySpend", "Tenure"} \subseteq DOMAIN fr
          [] t = "Top 10 Industries" -> "Industry" \in DOMAIN fr
          [] t = "Monthly Spend Distribution" -> "MonthlySpend" \in DOMAIN fr
          [] t = "Tenure Distribution" -> "Tenure" \in DOMAIN fr}

\* The outcomes of generate_graphs(df): its mean() calls raise TypeError on a
\* text column; whether seaborn and matplotlib draw or raise on a column with
\* no rows is not fixed by the source, so both are outcomes.
GenerateGraphs(fr, rows) ==
    IF \E c \in {"MonthlySpend", "Tenure"} \cap DOMAIN fr :
            fr[c].dtype = "object" /\ rows > 0
    THEN {[exc |-> "TypeError", titles |-> {}]}
    ELSE IF rows = 0 /\ GraphTitles(fr) # {}
    THEN {[exc |-> "none", titles |-> GraphTitles(fr)], [exc |-> "ValueError", titles |-> {}]}
    ELSE {[exc |-> "none", titles |-> GraphTitles(fr)]}

When(cond, elements) == IF cond THEN elements ELSE <<>>

\* display_shopmax_report(sections, graphs, metrics, df): the elements it puts
\* on the page, in order.
DisplayShopmaxReport(secs, titles, metrics) ==
    <<"report:title", "report:header:Subscription Plans">>
    \o When("plan_distribution" \in DOMAIN metrics
                /\ DOMAIN metrics["plan_distribution"] # {},
            <<"report:metric:plan_distribution">>)
    \o When("Plan Distribution" \in titles, <<"report:chart:Plan Distribution">>)
    \o <<"report:insight:plans", "report:header:Financial Insights">>
    \o When("average_spend" \in DOMAIN metrics, <<"report:metric:average_spend">>)
    \o When("churn_rate" \in DOMAIN metrics, <<"report:metric:churn_rate">>)
    \o When("Churn Rate" \in titles, <<"report:chart:Churn Rate">>)
    \o When("Monthly Spend Distribution" \in titles,
            <<"report:chart:Monthly Spend Distribution">>)
    \o <<"report:insight:financial", "report:header:Customer Tenure Analysis">>
    \o When("average_tenure" \in DOMAIN metrics, <<"report:metric:average_tenure">>)
    \o When("Spend vs Tenure" \in titles, <<"report:chart:Spend vs Tenure">>)
    \o When("Tenure Distribution" \in titles, <<"report:chart:Tenure Distribution">>)
    \o <<"report:insight:tenure">>
    \o When("Top 10 Industries" \in titles,
            <<"report:header:Industry Distribution", "report:chart:Top 10 Industries",
              "report:insight:industry">>)
    \o When(secs["recommendations"] # "",
            <<"report:header:Strategic Recommendations", "report:recommendations">>)
    \o <<"report:download">>

NoReport == [sections |-> EmptyDict, metrics |-> EmptyDict]

\* The script before its first run of a session: nothing uploaded, nothing
\* in st.session_state.
AppAtStart(key) ==
    /\ app_pc = "startup"
    /\ key_set = key
    /\ uploaded_file = NoFile
    /\ analyze_button = FALSE
    /\ button_shown = FALSE
    /\ report_generated = "unset"
    /\ app_df = FrameOf(EmptyDict)
    /\ graphs = {}
    /\ app_report = NoReport
    /\ app_exc = "none"
    /\ screen = <<>>
    /\ reruns = 1

\* A script run begins: the page is cleared and the locals are fresh.
BeginRun ==
    /\ app_pc' = "startup"
    /\ app_df' = FrameOf(EmptyDict)
    /\ graphs' = {}
    /\ app_report' = NoReport
    /\ app_exc' = "none"
    /\ screen' = <<>>
    /\ reruns' = reruns + 1

\* The user puts a file in the uploader, removes it, or touches another
\* widget (the file stays): the script reruns with the button not clicked.
AppInteract ==
    /\ app_pc = "idle"
    /\ reruns < MaxReruns
    /\ \E f \in {NoFile} \cup DOMAIN UploadedFiles : uploaded_file' = f
    /\ analyze_button' = FALSE
    /\ BeginRun
    /\ UNCHANGED <<key_set, button_shown, report_generated>>
    /\ UNCHANGED <<routerVars, genVars, metricsVars>>

\* The user clicks "Generate Business Report", which the last run rendered.
AppClickAnalyze ==
    /\ app_pc = "idle"
    /\ reruns < MaxReruns
    /\ button_shown
    /\ analyze_button' = TRUE
    /\ BeginRun
    /\ UNCHANGED <<key_set, uploaded_file, button_shown, report_generated>>
    /\ UNCHANGED <<routerVars, genVars, metricsVars>>

\* openai_api_key = get_openai_api_key(), then the page header.
AppStartup ==
    /\ app_pc = "startup"
    /\ IF key_set
       THEN /\ app_pc' = "uploader"
            /\ screen' = Append(screen, "page:title")
            /\ UNCHANGED <<app_exc, button_shown>>
       ELSE /\ app_pc' = "crashed"
            /\ app_exc' = "ValueError"
            /\ screen' = Append(screen, "exception:ValueError")
            /\ button_shown' = FALSE
    /\ UNCHANGED <<key_set, uploaded_file, analyze_button, report_generated, app_df,
                   graphs, app_report, reruns>>
    /\ UNCHANGED <<routerVars, genVars, metricsVars>>

\* uploaded_file = st.file_uploader(...); the intro message when there is none.
AppUploader ==
    /\ app_pc = "uploader"
    /\ IF uploaded_file = NoFile
       THEN /\ app_pc' = "idle"
            /\ screen' = Append(screen, "page:intro")
            /\ button_shown' = FALSE
       ELSE /\ app_pc' = "read"
            /\ UNCHANGED <<screen, button_shown>>
    /\ UNCHANGED <<key_set, uploaded_file, analyze_button, report_generated, app_df,
                   graphs, app_report, app_exc, reruns>>
    /\ UNCHANGED <<routerVars, genVars, metricsVars>>

\* df = pd.read_csv(uploaded_file); df.rename(...); the success message. An
\* exception goes to the outer except: "Error reading CSV file".
AppReadCsv ==
    /\ app_pc = "read"
    /\ IF UploadedFiles[uploaded_file].readable
       THEN /\ app_pc' = "tab1"
            /\ app_df' = RenameColumns(UploadedFiles[uploaded_file].frame, ColumnRenames)
            /\ screen' = Append(screen, "page:upload_success")
            /\ UNCHANGED button_shown
       ELSE /\ app_pc' = "idle"
            /\ screen' = Append(screen, "error:reading:EmptyDataError")
            /\ button_shown' = FALSE
            /\ UNCHANGED app_df
    /\ UNCHANGED <<key_set, uploaded_file, analyze_button, report_generated, graphs,
                   app_report, app_exc, reruns>>
    /\ UNCHANGED <<routerVars, genVars, metricsVars>>

\* tab1, first column: the preview, the statistics and the Generate button.
AppOverview ==
    /\ app_pc = "tab1"
    /\ app_pc' = "graphs"
    /\ screen' = screen \o <<"page:overview", "page:analyze_button">>
    /\ button_shown' = TRUE
    /\ UNCHANGED <<key_set, uploaded_file, analyze_button, report_generated, app_df,
                   graphs, app_report, app_exc, reruns>>
    /\ UNCHANGED <<routerVars, genVars, metricsVars>>

\* tab1, second column: graphs = generate_graphs(df) and the charts. An
\* exception goes to the outer except: "Error reading CSV file".
AppGraphs ==
    /\ app_pc = "graphs"
    /\ \E made \in GenerateGraphs(app_df, UploadedFiles[uploaded_file].rows) :
        IF made.exc = "none"
        THEN /\ app_pc' = "tab2"
             /\ graphs' = made.titles
             /\ screen' = Append(screen, "page:charts")
        ELSE /\ app_pc' = "idle"
             /\ screen' = Append(screen, "error:reading:" \o made.exc)
             /\ UNCHANGED graphs
    /\ UNCHANGED <<key_set, uploaded_file, analyze_button, button_shown, report_generated,
                   app_df, app_report, app_exc, reruns>>
    /\ UNCHANGED <<routerVars, genVars, metricsVars>>

\* tab2: if 'report_generated' not in st.session_state: ... = False
AppInitFlag ==
    /\ app_pc = "tab2"
    /\ app_pc' = "tab2_button"
    /\ report_generated' = IF report_generated = "unset" THEN "False" ELSE report_generated
    /\ UNCHANGED <<key_set, uploaded_file, analyze_button, button_shown, app_df, graphs,
                   app_report, app_exc, screen, reruns>>
    /\ UNCHANGED <<routerVars, genVars, metricsVars>>

\* The flag following the button: cleared in a rerun without a click.
AppSetFlag_FollowButton ==
    /\ app_pc = "tab2_button"
    /\ app_pc' = "tab2_branch"
    /\ report_generated' = IF analyze_button THEN "True" ELSE "False"
    /\ UNCHANGED <<key_set, uploaded_file, analyze_button, button_shown, app_df, graphs,
                   app_report, app_exc, screen, reruns>>
    /\ UNCHANGED <<routerVars, genVars, metricsVars>>

\* tab2: if analyze_button: st.session_state.report_generated = True
AppSetFlag ==
    /\ app_pc = "tab2_button"
    /\ app_pc' = "tab2_branch"
    /\ report_generated' = IF analyze_button THEN "True" ELSE report_generated
    /\ UNCHANGED <<key_set, uploaded_file, analyze_button, button_shown, app_df, graphs,
                   app_report, app_exc, screen, reruns>>
    /\ UNCHANGED <<routerVars, genVars, metricsVars>>

\* tab2: if st.session_state.report_generated: the report, else the
\* "No Business Report Generated Yet" placeholder.
AppBranch ==
    /\ app_pc = "tab2_branch"
    /\ IF report_generated = "True"
       THEN /\ app_pc' = "report"
            /\ UNCHANGED screen
       ELSE /\ app_pc' = "idle"
            /\ screen' = Append(screen, "page:placeholder")
    /\ UNCHANGED <<key_set, uploaded_file, analyze_button, button_shown, report_generated,
                   app_df, graphs, app_report, app_exc, reruns>>
    /\ UNCHANGED <<routerVars, genVars, metricsVars>>

\* generate_streamlit_report with the report title put on the page before
\* the texts are computed.
AppInsights_TitleFirst ==
    /\ app_pc = "report"
    /\ LET st == GenerateSampleInsights(app_df) IN
        /\ app_pc' = IF Running(st) THEN "key_metrics" ELSE "report_failed"
        /\ app_df' = st.df
        /\ app_exc' = st.exc
        /\ app_report' = IF Running(st) THEN [app_report EXCEPT !.sections = st.out]
                         ELSE app_report
    /\ screen' = Append(screen, "report:title")
    /\ UNCHANGED <<key_set, uploaded_file, analyze_button, button_shown, report_generated,
                   graphs, reruns>>
    /\ UNCHANGED <<routerVars, genVars, metricsVars>>

\* generate_streamlit_report: sample_insights = generate_sample_insights(df)
AppInsights ==
    /\ app_pc = "report"
    /\ LET st == GenerateSampleInsights(app_df) IN
        /\ app_pc' = IF Running(st) THEN "key_metrics" ELSE "report_failed"
        /\ app_df' = st.df
        /\ app_exc' = st.exc
        /\ app_report' = IF Running(st) THEN [app_report EXCEPT !.sections = st.out]
                         ELSE app_report
    /\ UNCHANGED <<key_set, uploaded_file, analyze_button, button_shown, report_generated,
                   graphs, screen, reruns>>
    /\ UNCHANGED <<routerVars, genVars, metricsVars>>

\* generate_streamlit_report: metrics = extract_key_metrics(df)
AppKeyMetrics ==
    /\ app_pc = "key_metrics"
    /\ LET st == ExtractKeyMetrics(app_df) IN
        /\ app_pc' = IF Running(st) THEN "display" ELSE "report_failed"
        /\ app_df' = st.df
        /\ app_exc' = st.exc
        /\ app_report' = IF Running(st) THEN [app_report EXCEPT !.metrics = st.out]
                         ELSE app_report
    /\ UNCHANGED <<key_set, uploaded_file, analyze_button, button_shown, report_generated,
                   graphs, screen, reruns>>
    /\ UNCHANGED <<routerVars, genVars, metricsVars>>

\* generate_streamlit_report: display_shopmax_report(report_sections, graphs,
\* metrics, df); the run ends.
AppDisplay ==
    /\ app_pc = "display"
    /\ app_pc' = "idle"
    /\ screen' = screen \o DisplayShopmaxReport(app_report.sections, graphs,
                                                app_report.metrics)
    /\ UNCHANGED <<key_set, uploaded_file, analyze_button, button_shown, report_generated,
                   app_df, graphs, app_report, app_exc, reruns>>
    /\ UNCHANGED <<routerVars, genVars, metricsVars>>

\* except Exception as e: st.error(f"Error generating report: {e}")
AppReportError ==
    /\ app_pc = "report_failed"
    /\ app_pc' = "idle"
    /\ screen' = Append(screen, "error:generating:" \o app_exc)
    /\ app_exc' = "none"
    /\ UNCHANGED <<key_set, uploaded_file, analyze_button, button_shown, report_generated,
                   app_df, graphs, app_report, reruns>>
    /\ UNCHANGED <<routerVars, genVars, metricsVars>>

----------------------------------------------------------------------------
(* Specifications *)

RouterInit ==
    /\ \E doc \in Documents : RouterAtCall(doc)
    /\ GenAtCall(<<>>, TRUE, 1)
    /\ MetricsAtUpload(FrameOf(EmptyDict))
    /\ AppAtStart(TRUE)

RouterNext == ExtractEnter \/ ExtractLine \/ ExtractReturn

SpecRouter == RouterInit /\ [][RouterNext]_vars

PipelineInit ==
    /\ RouterAtCall(<<>>)
    /\ \E n \in 0..MaxRows, key \in BOOLEAN, g \in GlobalSeeds :
            GenAtCall([i \in 1..n |-> i], key, g)
    /\ MetricsAtUpload(FrameOf(EmptyDict))
    /\ AppAtStart(TRUE)

PipelineNext ==
    \/ GenSample
    \/ GenToCsv
    \/ GenCreateAgent
    \/ GenCreateTasks
    \/ GenCreateCrew
    \/ GenCallTask
    \/ GenRunTask
    \/ GenReturn
    \/ GenAgain

SpecPipeline == PipelineInit /\ [][PipelineNext]_vars

\* The metrics functions run on every uploaded dataset of up to MaxMetricRows
\* rows; the router and the pipeline stay where they are.
MetricsInit ==
    /\ RouterAtCall(<<>>)
    /\ GenAtCall(<<>>, TRUE, 1)
    /\ \E n \in 0..MaxMetricRows : \E fr \in RawFrames(n) : MetricsAtUpload(fr)
    /\ AppAtStart(TRUE)

MetricsNext ==
    \/ MetricsFindings
    \/ MetricsRename
    \/ MetricsInsights
    \/ MetricsKeyMetrics

SpecMetrics == MetricsInit /\ [][MetricsNext]_vars

\* One session of the page, with or without OPENAI_API_KEY in the
\* environment, over at most MaxReruns script runs.
AppInit ==
    /\ RouterAtCall(<<>>)
    /\ GenAtCall(<<>>, TRUE, 1)
    /\ MetricsAtUpload(FrameOf(EmptyDict))
    /\ \E key \in BOOLEAN : AppAtStart(key)

AppNext ==
    \/ AppInteract
    \/ AppClickAnalyze
    \/ AppStartup
    \/ AppUploader
    \/ AppReadCsv
    \/ AppOverview
    \/ AppGraphs
    \/ AppInitFlag
    \/ AppSetFlag
    \/ AppBranch
    \/ AppInsights
    \/ AppKeyMetrics
    \/ AppDisplay
    \/ AppReportError

SpecApp == AppInit /\ [][AppNext]_vars

----------------------------------------------------------------------------
(* Vocabulary of the routing properties, stated on the document alone *)

\* The lines of a text in which every line ends with a terminator.
TerminatedLines(text) == SubSeq(Split(text), 1, Len(Split(text)) - 1)

\* Each line followed by one terminator.
RECURSIVE Terminate(_)
Terminate(ls) == IF Len(ls) = 0 THEN <<>> ELSE ls[1] \o <<NL>> \o Terminate(Tail(ls))

SeqToBag(s) ==
    [x \in {s[i] : i \in DOMAIN s} |-> Cardinality({i \in DOMAIN s : s[i] = x})]

RECURSIVE SumLen(_)
SumLen(ls) == IF Len(ls) = 0 THEN 0 ELSE Len(ls[1]) + SumLen(Tail(ls))

HasHash(line) == \E i \in DOMAIN line : line[i] = "#"
HasKeyword(kw, line) == Contains(kw, Lower(line))

\* The section a line opens, "none" for a line that opens no section.
HeadingKind(line) ==
    CASE HasHash(line) /\ HasKeyword(KW_insight, line) -> "insights"
      [] HasHash(line) /\ ~HasKeyword(KW_insight, line) /\ HasKeyword(KW_quality, line)
            -> "quality"
      [] HasHash(line) /\ ~HasKeyword(KW_insight, line) /\ ~HasKeyword(KW_quality, line)
            /\ HasKeyword(KW_recommend, line) -> "recommendations"
      [] OTHER -> "none"

\* The bucket of line i of ls: that of the latest section opened at or before i.
BucketOf(ls, i) ==
    LET H == {j \in 1..i : HeadingKind(ls[j]) # "none"} IN
    IF H = {} THEN "intro"
    ELSE HeadingKind(ls[CHOOSE j \in H : \A h \in H : h <= j])

\* The first n lines of ls that belong to bucket k, in document order.
RECURSIVE RoutedTo(_, _, _)
RoutedTo(ls, n, k) ==
    IF n = 0 THEN <<>>
    ELSE RoutedTo(ls, n - 1, k) \o (IF BucketOf(ls, n) = k THEN <<ls[n]>> ELSE <<>>)

SectionRank(k) ==
    CASE k = "intro" -> 0 [] k = "insights" -> 1 [] k = "quality" -> 2
      [] k = "recommendations" -> 3

\* The document never returns to a bucket that comes earlier in the order
\* intro, insights, quality, recommendations.
CanonicalOrder(ls) ==
    \A i, j \in DOMAIN ls :
        i < j => SectionRank(BucketOf(ls, i)) <= SectionRank(BucketOf(ls, j))

Joined ==
    sections["intro"] \o sections["insights"] \o sections["quality"]
        \o sections["recommendations"]

Started == router_pc \in {"loop", "done"}
Returned == router_pc = "done"

----------------------------------------------------------------------------
(* Claims about extract_report_sections *)

\* C1 (as stated): joining intro, insights, quality, recommendations in that
\* order reproduces the document's lines in their original order.
C1_JoinReproducesDocument ==
    Returned => TerminatedLines(Joined) = lines

\* C1 (amended): the join holds every line of the document exactly once, and
\* it is in document order whenever the document never returns to an earlier
\* bucket of the order intro, insights, quality, recommendations.
C1_JoinIsPermutation ==
    Returned =>
        /\ SeqToBag(TerminatedLines(Joined)) = SeqToBag(lines)
        /\ Len(TerminatedLines(Joined)) = Len(lines)
        /\ CanonicalOrder(lines) => TerminatedLines(Joined) = lines

C1_Witness ==
    /\ Returned
    /\ Len(lines) >= 3
    /\ CanonicalOrder(lines)
    /\ sections["intro"] # <<>>
    /\ sections["quality"] # <<>>
    /\ TerminatedLines(Joined) = lines

\* C2: after any prefix of the lines, each processed line sits in exactly one
\* bucket with one terminator: the buckets hold as many lines as were processed.
C2_OneBucketPerLine ==
    Started =>
        /\ Len(TerminatedLines(sections["intro"])) + Len(TerminatedLines(sections["insights"]))
            + Len(TerminatedLines(sections["quality"]))
            + Len(TerminatedLines(sections["recommendations"])) = line_idx
        /\ Len(Joined) = SumLen(SubSeq(lines, 1, line_idx)) + line_idx
        /\ SeqToBag(TerminatedLines(Joined)) = SeqToBag(SubSeq(lines, 1, line_idx))

C2_Witness ==
    /\ router_pc = "loop"
    /\ line_idx = 2
    /\ line_idx < Len(lines)
    /\ sections["intro"] # <<>>
    /\ sections["recommendations"] # <<>>

\* One loop iteration, as the routing rule states it for the line processed.
C3_Step ==
    (router_pc = "loop" /\ line_idx' = line_idx + 1) =>
        LET line == lines[line_idx + 1] IN
        /\ (HasHash(line) /\ HasKeyword(KW_insight, line)) => current_section' = "insights"
        /\ (HasHash(line) /\ ~HasKeyword(KW_insight, line) /\ HasKeyword(KW_quality, line))
            => current_section' = "quality"
        /\ (HasHash(line) /\ ~HasKeyword(KW_insight, line) /\ ~HasKeyword(KW_quality, line)
                /\ HasKeyword(KW_recommend, line))
            => current_section' = "recommendations"
        /\ (~HasHash(line) \/ (~HasKeyword(KW_insight, line) /\ ~HasKeyword(KW_quality, line)
                /\ ~HasKeyword(KW_recommend, line)))
            => current_section' = current_section
        /\ sections' = AppendLine(sections, current_section', line)

\* C3: the current bucket starts as intro; a line with '#' switches it to the
\* first keyword it contains in the order insight, quality, recommend; any
\* other line leaves it alone; the line is appended to the resulting bucket.
C3_KeywordPriority ==
    /\ []((router_pc = "loop" /\ line_idx = 0) => current_section = "intro")
    /\ [][C3_Step]_vars

C3_Witness ==
    /\ Returned
    /\ lines = <<LineBoth, LineNoHash, LineQualRec>>
    /\ sections["insights"] = LineBoth \o <<NL>> \o LineNoHash \o <<NL>>
    /\ current_section = "quality"

\* The document is an insights heading (line 1), body lines, a quality
\* heading (line q), body lines, a recommendations heading (line r), body lines.
C4_Shape(q, r) ==
    /\ 1 < q /\ q < r /\ r <= Len(lines)
    /\ HeadingKind(lines[1]) = "insights"
    /\ HeadingKind(lines[q]) = "quality"
    /\ HeadingKind(lines[r]) = "recommendations"
    /\ \A i \in DOMAIN lines : i \notin {1, q, r} => HeadingKind(lines[i]) = "none"

\* C4: insights heading, bodies, quality heading, bodies, recommendations
\* heading, bodies: intro is empty and each other bucket is its heading
\* followed by exactly the body lines up to the next heading.
C4_ThreeSections ==
    Returned =>
        \A q, r \in DOMAIN lines :
            C4_Shape(q, r) =>
                /\ sections["intro"] = <<>>
                /\ sections["insights"] = Terminate(SubSeq(lines, 1, q - 1))
                /\ sections["quality"] = Terminate(SubSeq(lines, q, r - 1))
                /\ sections["recommendations"] = Terminate(SubSeq(lines, r, Len(lines)))

C4_Witness ==
    /\ Returned
    /\ report_text = ExampleDoc
    /\ C4_Shape(3, 5)
    /\ sections["intro"] = <<>>
    /\ sections["insights"] = LineInsights \o <<NL, "A", NL>>
    /\ sections["quality"] = LineQuality \o <<NL, "B", NL>>
    /\ sections["recommendations"] = LineRecommend \o <<NL, "C", NL, NL>>

\* C5: a document without '#' lands entirely in intro; the other three
\* buckets are empty strings.
C5_NoMarkerAllIntro ==
    (Returned /\ ~HasHash(report_text)) =>
        /\ sections["intro"] = report_text \o <<NL>>
        /\ TerminatedLines(sections["intro"]) = lines
        /\ sections["insights"] = <<>>
        /\ sections["quality"] = <<>>
        /\ sections["recommendations"] = <<>>

C5_Witness ==
    /\ Returned
    /\ ~HasHash(report_text)
    /\ Len(lines) >= 2
    /\ \E i \in DOMAIN lines : HasKeyword(KW_insight, lines[i])
    /\ sections["intro"] = report_text \o <<NL>>

\* C6: the result has exactly the four keys, and each bucket is the
\* subsequence of the original (not lower-cased) lines routed to it, in
\* document order, a re-entered bucket keeping its earlier lines.
C6_BucketsAreRoutedSubsequences ==
    Started =>
        /\ DOMAIN sections = SectionNames
        /\ \A k \in SectionNames : sections[k] = Terminate(RoutedTo(lines, line_idx, k))

C6_Witness ==
    /\ Returned
    /\ Len(lines) = 3
    /\ BucketOf(lines, 1) = "insights"
    /\ BucketOf(lines, 2) = "quality"
    /\ BucketOf(lines, 3) = "insights"
    /\ lines[1] # Lower(lines[1])
    /\ sections["insights"] = lines[1] \o <<NL>> \o lines[3] \o <<NL>>

----------------------------------------------------------------------------
(* Claims about generate_report *)

NoDuplicates(rows) == \A i, j \in DOMAIN rows : rows[i] = rows[j] => i = j

\* The data lines of a serialized table: all lines but the header.
CsvRows(table) == Tail(table)

MinOf(a, b) == IF a <= b THEN a ELSE b

\* C7: on a dataset of 0 rows generate_report returns the "no data" sentinel,
\* creating or invoking no agent, task, crew or generation, whether or not
\* the generation capability is available.
C7_EmptyShortCircuits ==
    (Len(df) = 0 /\ gen_pc # "call") =>
        /\ gen_pc = "done"
        /\ gen_result = "No data to analyze."
        /\ agents = <<>>
        /\ llm_calls = 0
        /\ tasks = <<>>
        /\ crew = "none"
        /\ task_outputs = <<>>

C7_Witness ==
    /\ Len(df) = 0
    /\ ~api_key
    /\ gen_pc = "done"
    /\ gen_result = "No data to analyze."

\* C8: for a dataset of N > 0 rows the table serialized into each task holds
\* min(N, 50) rows, and for N <= 50 they are the dataset's rows in order.
C8_SampleSize ==
    (Len(df) > 0 /\ gen_pc \in {"crew", "kickoff", "done"}) =>
        /\ Len(tasks) = 3
        /\ \A t \in DOMAIN tasks :
            /\ Len(CsvRows(tasks[t].table)) = MinOf(Len(df), 50)
            /\ Len(df) <= 50 =>
                CsvRows(tasks[t].table) = [i \in 1..Len(df) |-> <<"row", df[i]>>]

C8_Witness ==
    /\ gen_pc = "done"
    /\ Len(df) = 50
    /\ Len(tasks) = 3
    /\ CsvRows(tasks[3].table) = [i \in 1..50 |-> <<"row", i>>]

\* C9: for a dataset of more than 50 rows the sample is 50 rows of the
\* dataset, none twice, and a second call on the same dataset selects the
\* same rows as the first.
C9_SampleDeterministic ==
    (Len(df) > 50 /\ gen_pc \notin {"call", "raised"}) =>
        /\ Len(df_sample) = 50
        /\ NoDuplicates(df_sample)
        /\ \A i \in DOMAIN df_sample : \E j \in DOMAIN df : df_sample[i] = df[j]
        /\ runs > 1 => df_sample = prev_sample

C9_Witness ==
    /\ Len(df) > 50
    /\ runs = 2
    /\ gen_pc = "done"
    /\ df_sample = prev_sample
    /\ Len(df_sample) = 50
    /\ df_sample # SubSeq(df, 1, 50)

\* C10: the document returned holds the results of all three tasks, in the
\* order insights, quality, recommendations.
C10_AllResultsInOrder ==
    (gen_pc = "done" /\ Len(df) > 0) =>
        /\ Len(gen_result) = 3
        /\ \A i \in 1..3 :
            /\ gen_result[i] = task_outputs[i]
            /\ gen_result[i].task = AgentRoles[i]

\* C11: when one of the three tasks fails, generate_report returns no
\* document: the failure reaches the caller as one exception, and a document
\* is returned only when every task has produced its result.
C11_FailureIsWhole ==
    /\ (gen_pc = "done" /\ Len(df) > 0) =>
            /\ Len(task_outputs) = 3
            /\ \A i \in 1..3 : task_outputs[i].task = AgentRoles[i]
    /\ gen_result = "GenerationError" => gen_pc = "raised"
    /\ gen_pc = "raised" => gen_result \in {"ValueError", "GenerationError"}

C11_Witness ==
    /\ gen_pc = "raised"
    /\ gen_result = "GenerationError"
    /\ Len(task_outputs) = 2
    /\ Len(task_inputs) = 3

\* C12: a generation call that never responds is ended by a timeout, which
\* reaches the caller as a GenerationError: the pipeline can always go on.
C12_SilentCallTimesOut ==
    (gen_pc = "kickoff" /\ llm_call = "silent") => ENABLED PipelineNext

\* C13: every task is given the same serialized sample in the fixed
\* instruction of its role, and nothing of another task's output.
C13_TasksIndependent ==
    \A i \in DOMAIN task_inputs :
        /\ task_inputs[i].task.table = table_string
        /\ task_inputs[i].task.instruction = AgentRoles[i]
        /\ task_inputs[i].context = <<>>

----------------------------------------------------------------------------
(* Vocabulary of the metrics properties *)

ColumnKinds == {"plan", "monetary", "churn", "tenure", "industry", "country", "signup"}

\* The name each function knows a column by.
ColumnName(kind, fn) ==
    CASE kind = "plan" -> "Plan"
      [] kind = "monetary" -> IF fn = "extract_findings" THEN "Monthly Spend ($)" ELSE "MonthlySpend"
      [] kind = "churn" -> IF fn = "extract_findings" THEN "Churned" ELSE "Churn"
      [] kind = "tenure" -> IF fn = "extract_findings" THEN "Tenure (Months)" ELSE "Tenure"
      [] kind = "industry" -> "Industry"
      [] kind = "country" -> "Country"
      [] kind = "signup" -> "Signup Source"

\* The entries of the summary that come from a column.
SummaryKeys(kind, fn) ==
    CASE kind = "plan" -> {"plan_distribution"}
      [] kind = "monetary" ->
            IF fn = "extract_findings" THEN {"average_spend"}
            ELSE {"average_spend", "median_spend", "max_spend"}
      [] kind = "churn" -> {"churn_rate"}
      [] kind = "tenure" ->
            IF fn = "extract_findings" THEN {"average_tenure"}
            ELSE {"average_tenure", "median_tenure"}
      [] kind = "industry" -> {"top_industries"}
      [] kind = "country" -> {"top_countries"}
      [] kind = "signup" -> {"signup_sources"}

Present(kind) == ColumnName(kind, m_fn) \in DOMAIN m_df
ColumnOf(kind) == m_df[ColumnName(kind, m_fn)]
RowsOf(kind) == Len(ColumnOf(kind).values)

\* A present column that should hold numbers holds text.
Unparseable(kind) ==
    /\ kind \in {"monetary", "tenure"}
    /\ Present(kind)
    /\ ColumnOf(kind).dtype = "object"
    /\ RowsOf(kind) > 0

\* A metrics function has just ended, by returning or by raising.
ExtractorEnded ==
    \/ m_fn = "extract_key_metrics" /\ m_pc \in {"metrics", "raised"}
    \/ m_fn = "extract_findings" /\ m_pc \in {"findings", "raised"}
KeyMetricsEnded == m_fn = "extract_key_metrics" /\ m_pc \in {"metrics", "raised"}
KeyMetricsReturned == m_fn = "extract_key_metrics" /\ m_pc = "metrics"

Abs(x) == IF x < 0 THEN 0 - x ELSE x

\* numer / denom to the nearest whole number.
Nearest(numer, denom) ==
    CHOOSE c \in 0..((numer \div denom) + 1) : 2 * Abs(c * denom - numer) <= denom

\* C14: for every dataset whose present columns hold values of their type and
\* every subset of the optional columns that is absent, metrics extraction
\* (extract_key_metrics, extract_findings) ends without raising and its
\* summary has no key derived from an absent column.
C14_AbsentColumnsOmitted ==
    (ExtractorEnded /\ \A kind \in ColumnKinds : ~Unparseable(kind)) =>
        /\ m_result.exc = "none"
        /\ \A kind \in ColumnKinds :
                ~Present(kind) => SummaryKeys(kind, m_fn) \cap DOMAIN m_result.value = {}

\* C15: when extract_key_metrics returns, every listed optional column that
\* is present has its entries in the summary; a present signup-source column
\* yields the signup-sources list.
C15_PresentColumnsReported ==
    KeyMetricsReturned =>
        \A kind \in ColumnKinds :
            Present(kind) => SummaryKeys(kind, m_fn) \subseteq DOMAIN m_result.value

StringFlags ==
    /\ Present("churn")
    /\ ColumnOf("churn").dtype = "object"
    /\ RowsOf("churn") > 0
    /\ \A i \in DOMAIN ColumnOf("churn").values :
            ColumnOf("churn").values[i] \in {"True", "False"}

\* A percentage of tenths / 10, to one decimal place.
OneDecimalPercent(tenths) == ToString(tenths \div 10) \o "." \o ToString(tenths % 10) \o "%"

\* C16: for a churn column of the strings "True" / "False", the churn rate
\* extract_key_metrics reports is the percentage of rows that are "True", to
\* one decimal place ("75.0%" for 3 of 4).
C16_StringFlagsCounted ==
    (KeyMetricsReturned /\ StringFlags) =>
        m_result.value["churn_rate"] =
            OneDecimalPercent(Nearest(1000 * CountOf(ColumnOf("churn").values, "True"),
                                      RowsOf("churn")))

CoercionFails ==
    /\ Present("churn")
    /\ ColumnOf("churn").dtype = "boolean"
    /\ \E i \in DOMAIN ColumnOf("churn").values : ColumnOf("churn").values[i].na

NoTrueLabel ==
    \A i \in DOMAIN ColumnOf("churn").values :
        ColumnOf("churn").values[i].na \/ ~ColumnOf("churn").values[i].v

\* C17: the churn chain of extract_key_metrics never raises, whatever the
\* encoding of the churn column (the call raises only on a text monetary or
\* tenure column), and when coercion fails and no category is labelled True
\* the reported rate is "0.0%".
C17_ChurnChainTotal ==
    KeyMetricsEnded =>
        /\ m_result.exc # "none" => \E kind \in ColumnKinds : Unparseable(kind)
        /\ (m_result.exc = "none" /\ Present("churn")) =>
                "churn_rate" \in DOMAIN m_result.value
        /\ (m_result.exc = "none" /\ CoercionFails /\ NoTrueLabel) =>
                m_result.value["churn_rate"] = "0.0%"

C17_Witness ==
    /\ KeyMetricsReturned
    /\ CoercionFails
    /\ NoTrueLabel
    /\ RowsOf("churn") > 1
    /\ m_result.value["churn_rate"] = "0.0%"

\* C18: extract_key_metrics and generate_sample_insights leave the caller's
\* dataset as it was: the same columns and the same rows after the call as
\* before it.
C18_DatasetUnchanged ==
    [][(m_pc \in {"ready", "insights"}) => (m_df' = m_df)]_vars

\* C19: extract_key_metrics does not abort on a present column of unparseable
\* type: it omits that metric and returns every metric of the other columns
\* it reports.
C19_UnparseableOmitted ==
    KeyMetricsEnded =>
        /\ m_result.exc = "none"
        /\ \A kind \in ColumnKinds \ {"signup"} :
                /\ Unparseable(kind) =>
                        SummaryKeys(kind, m_fn) \cap DOMAIN m_result.value = {}
                /\ (Present(kind) /\ ~Unparseable(kind)) =>
                        SummaryKeys(kind, m_fn) \subseteq DOMAIN m_result.value

\* The monetary column in cents.
SpendCents ==
    [i \in DOMAIN ColumnOf("monetary").values |->
        (ColumnOf("monetary").values[i].num * 100) \div ColumnOf("monetary").values[i].den]

RECURSIVE SumOf(_)
SumOf(ints) == IF Len(ints) = 0 THEN 0 ELSE ints[1] + SumOf(Tail(ints))

\* The k-th smallest of the values.
KthSmallest(ints, k) ==
    CHOOSE v \in {ints[i] : i \in DOMAIN ints} :
        /\ Cardinality({i \in DOMAIN ints : ints[i] < v}) < k
        /\ k <= Cardinality({i \in DOMAIN ints : ints[i] <= v})

\* An amount of cents as currency with two decimals.
Currency(cents) ==
    "$" \o ToString(cents \div 100) \o "." \o ToString((cents % 100) \div 10)
        \o ToString(cents % 10)

NumericSpend ==
    /\ Present("monetary")
    /\ ColumnOf("monetary").dtype \in {"float64", "int64"}
    /\ RowsOf("monetary") > 0

\* C20: for a monetary column, extract_key_metrics reports the mean, the
\* median and the maximum as currency with two decimals; for 10.00, 20.00,
\* 30.00 they are "$20.00", "$20.00" and "$30.00".
C20_SpendAsCurrency ==
    (KeyMetricsReturned /\ NumericSpend) =>
        LET c == SpendCents
            n == Len(c)
        IN /\ m_result.value["average_spend"] = Currency(Nearest(SumOf(c), n))
           /\ m_result.value["median_spend"] =
                    Currency(Nearest(KthSmallest(c, (n + 1) \div 2)
                                        + KthSmallest(c, (n \div 2) + 1), 2))
           /\ m_result.value["max_spend"] = Currency(KthSmallest(c, n))
           /\ c = <<1000, 2000, 3000>> =>
                    /\ m_result.value["average_spend"] = "$20.00"
                    /\ m_result.value["median_spend"] = "$20.00"
                    /\ m_result.value["max_spend"] = "$30.00"

C20_Witness ==
    /\ KeyMetricsReturned
    /\ NumericSpend
    /\ SpendCents = <<1000, 2000, 3000>>
    /\ m_result.value["average_spend"] = "$20.00"
    /\ m_result.value["median_spend"] = "$20.00"
    /\ m_result.value["max_spend"] = "$30.00"

\* generate_sample_insights has just ended, by returning or by raising.
InsightsEnded == m_fn = "generate_sample_insights" /\ m_pc \in {"insights", "raised"}
InsightsReturned == m_fn = "generate_sample_insights" /\ m_pc = "insights"

\* C21: for every dataset, also one with a single recognized column or none,
\* generate_sample_insights returns, with a non-empty insights text and a
\* non-empty recommendations text.
C21_InsightsNeverEmpty ==
    InsightsEnded =>
        /\ m_result.exc = "none"
        /\ Len(m_result.value["insights"]) > 0
        /\ Len(m_result.value["recommendations"]) > 0

\* A text followed by the boilerplate exactly when it is shorter than 50
\* characters.
WithBoilerplate(text, boilerplate) ==
    IF Len(text) < 50 THEN text \o boilerplate ELSE text

\* C22: a returning call of generate_sample_insights appends the boilerplate
\* paragraph to the insights exactly when the insights derived from the
\* columns are shorter than 50 characters, and independently the boilerplate
\* bullets to the recommendations exactly when the derived recommendations
\* are shorter than 50 characters.
C22_BoilerplateBelowThreshold ==
    [][(m_pc = "ready" /\ m_fn' = "generate_sample_insights" /\ m_pc' = "insights") =>
            /\ m_result'.value["insights"] =
                    WithBoilerplate(SI_Derived(m_df).out["insights"], GenericInsights)
            /\ m_result'.value["recommendations"] =
                    WithBoilerplate(SI_Derived(m_df).out["recommendations"],
                                    GenericRecommendations)]_vars

\* An industry column with no rows: 46 characters of insights, a full
\* recommendation bullet.
C22_Witness ==
    /\ InsightsReturned
    /\ DOMAIN m_df = {"Industry"}
    /\ Len(m_df["Industry"].values) = 0
    /\ m_result.value["insights"] =
            "The top industries in our customer base are . " \o GenericInsights
    /\ m_result.value["recommendations"] =
            "- Develop industry-specific features for the top customer segments.\n"

----------------------------------------------------------------------------
(* Vocabulary of the page properties *)

OnScreen(element) == \E i \in DOMAIN screen : screen[i] = element

\* The elements that are parts of the report.
ReportParts ==
    {"report:title", "report:recommendations", "report:download"}
    \cup {"report:header:" \o h :
            h \in {"Subscription Plans", "Financial Insights", "Customer Tenure Analysis",
                   "Industry Distribution", "Strategic Recommendations"}}
    \cup {"report:metric:" \o k :
            k \in {"plan_distribution", "average_spend", "churn_rate", "average_tenure"}}
    \cup {"report:chart:" \o t :
            t \in {"Plan Distribution", "Churn Rate", "Spend vs Tenure",
                   "Top 10 Industries", "Monthly Spend Distribution",
                   "Tenure Distribution"}}
    \cup {"report:insight:" \o k : k \in {"plans", "financial", "tenure", "industry"}}

ExceptionNames == {"IndexError", "TypeError", "ValueError", "KeyError"}

ReportErrors == {"error:generating:" \o e : e \in ExceptionNames}

NoReportPart == \A i \in DOMAIN screen : screen[i] \notin ReportParts
ReportErrorShown == \E i \in DOMAIN screen : screen[i] \in ReportErrors

\* The run has ended and had reached the report tab.
RunEndedInTab2 == app_pc = "idle" /\ OnScreen("page:charts")

\* C23: whenever report generation fails with an exception, the page gets the
\* error message with the exception's detail and no part of the report
\* (title, headers, metrics, charts) is on the page in that run.
C23_NoHalfBuiltReport ==
    /\ [](/\ app_pc = "report_failed" => (app_exc # "none" /\ NoReportPart)
          /\ ReportErrorShown => NoReportPart)
    /\ [][app_pc = "report_failed" =>
            (/\ Len(screen') = Len(screen) + 1
             /\ screen'[Len(screen')] = "error:generating:" \o app_exc)]_vars

C23_Witness ==
    /\ app_pc = "idle"
    /\ OnScreen("error:generating:IndexError")
    /\ NoReportPart
    /\ UploadedFiles[uploaded_file].rows = 0

\* C24: on the report path of the page, a dataset with zero rows (whatever
\* its columns) gives a fixed "no data" result and no exception.
C24_ZeroRowsNoData ==
    (/\ uploaded_file # NoFile
     /\ UploadedFiles[uploaded_file].readable
     /\ UploadedFiles[uploaded_file].rows = 0
     /\ report_generated = "True") =>
        /\ app_pc # "report_failed"
        /\ RunEndedInTab2 => (OnScreen("report:no_data") /\ NoReportPart)

\* C25: with OPENAI_API_KEY unset or empty the application still starts (and
\* goes on to the template-based report): get_openai_api_key's ValueError does
\* not end the script run.
C25_StartsWithoutKey ==
    ~key_set => (app_pc # "crashed" /\ ~OnScreen("exception:ValueError"))

FlagSteps ==
    /\ report_generated = "unset" => report_generated' \in {"unset", "False"}
    /\ (report_generated # "True" /\ report_generated' = "True") => analyze_button
    /\ report_generated = "True" => report_generated' = "True"

\* C26 as stated: the flag starts False, becomes True only in a rerun where
\* the button was clicked and is never reset; the report is shown in every
\* rerun with an uploaded file once the flag is True; the placeholder is shown
\* only while the flag is False.
C26_ReportInEveryRerunWithFile ==
    /\ report_generated # "True"
    /\ [][FlagSteps]_vars
    /\ []((app_pc = "idle" /\ report_generated = "True" /\ uploaded_file # NoFile) =>
                OnScreen("report:title"))
    /\ [](OnScreen("page:placeholder") => report_generated = "False")

\* C26, amended: the flag starts False, becomes True only in a rerun where the
\* button was clicked and is never reset; once it is True, every run that
\* reads its uploaded file and draws its charts regenerates the report and
\* ends with the report or with the "Error generating report" message on the
\* page, never with the placeholder; the placeholder is shown only while the
\* flag is False.
C26_ReportInEveryRerunReachingTab2 ==
    /\ report_generated # "True"
    /\ [][FlagSteps]_vars
    /\ []((RunEndedInTab2 /\ report_generated = "True") =>
                /\ OnScreen("report:title") \/ ReportErrorShown
                /\ ~OnScreen("page:placeholder"))
    /\ []((app_pc = "idle" /\ OnScreen("report:title")) =>
                (report_generated = "True" /\ uploaded_file # NoFile))
    /\ [](OnScreen("page:placeholder") => report_generated = "False")

\* A rerun after the one with the click, with no click of its own, shows the
\* report again.
C26_Witness ==
    /\ app_pc = "idle"
    /\ report_generated = "True"
    /\ ~analyze_button
    /\ uploaded_file # NoFile
    /\ OnScreen("report:title")
    /\ OnScreen("report:download")

====
